---------------------------- MODULE Spec2Model ----------------------------
(***************************************************************************)
(* A model of aos_up (src/src/main.rs): the AOS v2 archive packer and      *)
(* unpacker.                                                               *)
(*                                                                         *)
(* Files are byte strings.  A byte string is kept run-length encoded (a    *)
(* sequence of <<byte, count>> runs in canonical form: no empty run, no    *)
(* two adjacent runs of the same byte), so that a file of 4 GiB is a value *)
(* the model can hold.  Sizes and file positions are wide numbers          *)
(* <<hi, lo>> = hi * 2^16 + lo, because the u32 fields of the format wrap  *)
(* at 2^32, which is more than a TLC integer holds.                        *)
(***************************************************************************)
EXTENDS Integers, Sequences, FiniteSets, TLC

\* ------------------------------------------------------------------------
\* Wide numbers: <<hi, lo>> with 0 <= lo < 2^16, value hi * 2^16 + lo.
\* ------------------------------------------------------------------------
Limb == 256 * 256

W(n) == <<n \div Limb, n % Limb>>

WAdd(a, b) ==
    LET lo == a[2] + b[2]
    IN  <<a[1] + b[1] + (lo \div Limb), lo % Limb>>

WLe(a, b) == a[1] < b[1] \/ (a[1] = b[1] /\ a[2] <= b[2])

WLt(a, b) == a[1] < b[1] \/ (a[1] = b[1] /\ a[2] < b[2])

\* a - b, for b <= a
WSub(a, b) ==
    IF a[2] >= b[2] THEN <<a[1] - b[1], a[2] - b[2]>>
    ELSE <<a[1] - b[1] - 1, a[2] + Limb - b[2]>>

WZero == <<0, 0>>

\* n * c for a small count n and a small factor c
WMul(n, c) == W(n * c)

\* a \div c for a small divisor c
WDiv(a, c) ==
    LET rest == (a[1] % c) * Limb + a[2]
    IN  <<(a[1] \div c) + ((rest \div c) \div Limb), (rest \div c) % Limb>>

\* `x as u32`: the value modulo 2^32
AsU32(a) == <<a[1] % Limb, a[2]>>

\* whether a value fits a u32 (is below 2^32)
FitsU32(a) == a[1] < Limb

\* the four little-endian bytes of a u32, and back
LE32(a) == <<a[2] % 256, a[2] \div 256, a[1] % 256, (a[1] \div 256) % 256>>

FromLE32(q) == <<q[3] + 256 * q[4], q[1] + 256 * q[2]>>

\* ------------------------------------------------------------------------
\* Byte strings, run-length encoded.
\* ------------------------------------------------------------------------
RECURSIVE BLen(_)
BLen(s) == IF s = <<>> THEN WZero ELSE WAdd(s[1][2], BLen(Tail(s)))

\* n copies of byte b (n wide)
Rep(b, n) == IF n = WZero THEN <<>> ELSE << <<b, n>> >>

BCat(s, t) ==
    IF s = <<>> THEN t
    ELSE IF t = <<>> THEN s
    ELSE LET l == s[Len(s)]
             h == t[1]
         IN  IF l[1] = h[1]
             THEN SubSeq(s, 1, Len(s) - 1) \o << <<l[1], WAdd(l[2], h[2])>> >> \o Tail(t)
             ELSE s \o t

\* the first k bytes of s (all of s when it is shorter)
RECURSIVE BTake(_, _)
BTake(s, k) ==
    IF k = WZero \/ s = <<>> THEN <<>>
    ELSE IF WLe(s[1][2], k) THEN <<s[1]>> \o BTake(Tail(s), WSub(k, s[1][2]))
    ELSE << <<s[1][1], k>> >>

\* s without its first k bytes (empty when it is shorter)
RECURSIVE BDrop(_, _)
BDrop(s, k) ==
    IF k = WZero \/ s = <<>> THEN s
    ELSE IF WLe(s[1][2], k) THEN BDrop(Tail(s), WSub(k, s[1][2]))
    ELSE << <<s[1][1], WSub(s[1][2], k)>> >> \o Tail(s)

\* the n bytes of s from position p on (fewer when s ends before)
BSlice(s, p, n) == BTake(BDrop(s, p), n)

\* a plain sequence of bytes as a byte string, and back (short strings only)
RECURSIVE BFromSeq(_)
BFromSeq(q) ==
    IF q = <<>> THEN <<>> ELSE BCat(<< <<q[1], W(1)>> >>, BFromSeq(Tail(q)))

RECURSIVE BToSeq(_)
BToSeq(s) ==
    IF s = <<>> THEN <<>>
    ELSE IF s[1][2] = W(1) THEN <<s[1][1]>> \o BToSeq(Tail(s))
    ELSE <<s[1][1]>> \o BToSeq(<< <<s[1][1], WSub(s[1][2], W(1))>> >> \o Tail(s))


\* ------------------------------------------------------------------------
\* The schema: the packed header and TOC entry, and their byte layout.
\* ------------------------------------------------------------------------
ARCHIVE_NAME_SIZE == 261

FILENAME_SIZE == 32

\* size_of::<AosV2Hdr>(): unknown1, data_offset, toc_length, archive_name
HDR_SIZE == 4 + 4 + 4 + ARCHIVE_NAME_SIZE

\* size_of::<AosV2Entry>(): filename, offset, length
ENTRY_SIZE == FILENAME_SIZE + 4 + 4

Zeros(n) == [i \in 1..n |-> 0]

\* read_exact of n bytes at position pos: all n bytes, or an error (unexpected
\* end of file) when fewer remain.  Reading no bytes succeeds at any position,
\* also one past the end of the file (seeking there is allowed).
ReadExact(file, pos, n) ==
    IF n = WZero \/ WLe(WAdd(pos, n), BLen(file))
    THEN [ok |-> TRUE, data |-> BSlice(file, pos, n)]
    ELSE [ok |-> FALSE, data |-> <<>>]

\* the header as its 273 bytes (little-endian fields, no padding)
AosV2Hdr_to_bytes(h) ==
    BCat(BFromSeq(LE32(h.unknown1) \o LE32(h.data_offset) \o LE32(h.toc_length)),
         h.archive_name)

\* the header read at position pos of a file
AosV2Hdr_from_reader(file, pos) ==
    LET r == ReadExact(file, pos, W(HDR_SIZE))
        f == BToSeq(BTake(r.data, W(12)))
    IN  IF ~r.ok THEN [ok |-> FALSE]
        ELSE [ok |-> TRUE,
              val |-> [unknown1 |-> FromLE32(SubSeq(f, 1, 4)),
                       data_offset |-> FromLE32(SubSeq(f, 5, 8)),
                       toc_length |-> FromLE32(SubSeq(f, 9, 12)),
                       archive_name |-> BDrop(r.data, W(12))]]

\* a TOC entry as its 40 bytes
AosV2Entry_to_bytes(e) ==
    BFromSeq(e.filename \o LE32(e.offset) \o LE32(e.length))

\* the TOC entry read at position pos of a file
AosV2Entry_from_reader(file, pos) ==
    LET r == ReadExact(file, pos, W(ENTRY_SIZE))
        f == BToSeq(r.data)
    IN  IF ~r.ok THEN [ok |-> FALSE]
        ELSE [ok |-> TRUE,
              val |-> [filename |-> SubSeq(f, 1, FILENAME_SIZE),
                       offset |-> FromLE32(SubSeq(f, FILENAME_SIZE + 1, FILENAME_SIZE + 4)),
                       length |-> FromLE32(SubSeq(f, FILENAME_SIZE + 5, FILENAME_SIZE + 8))]]

\* Whether a byte sequence is well-formed UTF-8 (what String::from_utf8 and
\* OsStr::to_str accept).
Cont(b) == 128 <= b /\ b <= 191

RECURSIVE IsUtf8(_)
IsUtf8(q) ==
    IF q = <<>> THEN TRUE
    ELSE LET b == q[1]
             n == Len(q)
         IN  IF b <= 127 THEN IsUtf8(Tail(q))
             ELSE IF 194 <= b /\ b <= 223
             THEN n >= 2 /\ Cont(q[2]) /\ IsUtf8(SubSeq(q, 3, n))
             ELSE IF 224 <= b /\ b <= 239
             THEN /\ n >= 3
                  /\ Cont(q[2]) /\ Cont(q[3])
                  /\ (b = 224 => q[2] >= 160)
                  /\ (b = 237 => q[2] <= 159)
                  /\ IsUtf8(SubSeq(q, 4, n))
             ELSE IF 240 <= b /\ b <= 244
             THEN /\ n >= 4
                  /\ Cont(q[2]) /\ Cont(q[3]) /\ Cont(q[4])
                  /\ (b = 240 => q[2] >= 144)
                  /\ (b = 244 => q[2] <= 143)
                  /\ IsUtf8(SubSeq(q, 5, n))
             ELSE FALSE

\* position (0-based) of the first zero byte of a filename buffer, or
\* FILENAME_SIZE when it holds none
NullPos(filename) ==
    IF \E i \in 1..Len(filename) : filename[i] = 0
    THEN (CHOOSE i \in 1..Len(filename) :
              filename[i] = 0 /\ \A j \in 1..(i - 1) : filename[j] # 0) - 1
    ELSE FILENAME_SIZE

\* the entry's file name: the bytes before the first zero, as UTF-8
get_filename_str(e) ==
    LET bytes == SubSeq(e.filename, 1, NullPos(e.filename))
    IN  IF IsUtf8(bytes) THEN [ok |-> TRUE, val |-> bytes] ELSE [ok |-> FALSE]

\* ------------------------------------------------------------------------
\* State.
\* ------------------------------------------------------------------------
VARIABLES
    dir,            \* the input directory: [exists, listing]; listing is the
                    \* sequence read_dir yields, in its enumeration order
    archive,        \* the file at the archive path: [exists, bytes]
    archive0,       \* the file at the archive path when the run began
    out,            \* the output directory: [exists, files], files a map from
                    \* file name to contents
    overflow_checks,\* whether the build panics on integer overflow (debug) or
                    \* wraps (release)
    pc,             \* where the running command stands; "idle" between commands
    pack,           \* the locals of pack_directory
    unpack,         \* the locals of unpack_archive
    packRes,        \* how pack_directory ended ("none" before)
    unpackRes       \* how unpack_archive ended ("none" before)

vars == <<dir, archive, archive0, out, overflow_checks, pc, pack, unpack,
          packRes, unpackRes>>

NoFile == [exists |-> FALSE, bytes |-> <<>>]

FileOf(b) == [exists |-> TRUE, bytes |-> b]

NoPack == [files_to_pack |-> <<>>, i |-> 0, entries |-> <<>>, data_blob |-> <<>>,
           current_offset |-> WZero, header |-> <<>>]

NoUnpack == [header |-> <<>>, entry_count |-> WZero, entries |-> <<>>,
             pos |-> WZero, k |-> 0, written |-> <<>>]

\* ------------------------------------------------------------------------
\* The inputs the model explores.
\* ------------------------------------------------------------------------
\* most files of a directory to pack, and most TOC entries of a hand-made archive
MaxFiles == 2

MaxEntries == 2

Name(c) == <<c>>

LongName(n, c) == [i \in 1..n |-> c]

GiB == <<16384, 0>>

Times(n, a) == <<n * a[1] + ((n * a[2]) \div Limb), (n * a[2]) % Limb>>

\* a directory entry: its name, whether is_file() holds, its contents, and
\* whether fs::read succeeds on it
DirEntry(name, isFile, data, readable) ==
    [name |-> name, isFile |-> isFile, data |-> data, readable |-> readable]

DirPool ==
    { DirEntry(Name(97), TRUE, BFromSeq(<<97, 98, 99, 100>>), TRUE),
      DirEntry(Name(98), TRUE, BFromSeq(<<1, 2>>), TRUE),
      DirEntry(LongName(FILENAME_SIZE - 1, 120), TRUE, <<>>, TRUE),
      DirEntry(LongName(FILENAME_SIZE, 121), TRUE, BFromSeq(<<3>>), TRUE),
      DirEntry(Name(255), TRUE, BFromSeq(<<4>>), TRUE),
      DirEntry(Name(115), FALSE, <<>>, TRUE),
      DirEntry(Name(117), TRUE, BFromSeq(<<5>>), FALSE),
      DirEntry(Name(103), TRUE, BCat(Rep(7, Times(5, GiB)), BFromSeq(<<1, 2>>)), TRUE),
      DirEntry(Name(104), TRUE, Rep(5, Times(3, GiB)), TRUE) }

\* the listings of exactly n entries with pairwise different names, in every
\* enumeration order
RECURSIVE Listings(_)
Listings(n) ==
    IF n = 0 THEN {<<>>}
    ELSE UNION { { Append(l, e) : e \in {x \in DirPool :
                                           \A j \in 1..Len(l) : l[j].name # x.name} } :
                 l \in Listings(n - 1) }

\* the name of the directory packed ("d.in"): the archive is then d.aos and the
\* directory unpack_archive writes is d, another directory than the one packed
DirName == <<100, 46, 105, 110>>

DotAos == <<46, 97, 111, 115>>

\* a file found at the archive path before packing, left by something else
OldArchive == BFromSeq(<<9, 9, 9>>)

\* TOC entries of hand-made archives: a filename buffer, an offset, a length
Entry(filename, offset, length) ==
    [filename |-> filename, offset |-> offset, length |-> length]

Pad(name) == name \o Zeros(FILENAME_SIZE - Len(name))

DataRegion == BFromSeq(<<10, 11, 12, 13>>)

EntryPool ==
    { Entry(Pad(Name(97)), W(0), W(2)),
      Entry(Pad(Name(98)), W(1), W(3)),
      Entry(Pad(Name(97)), W(9), W(0)),
      Entry(Pad(Name(99)), <<Limb - 1, Limb - 1>>, <<Limb - 1, Limb - 1>>),
      Entry(Pad(Name(255)), W(2), W(3)),
      Entry(LongName(FILENAME_SIZE, 121), W(2), W(2)),
      Entry(Pad(<<>>), W(0), W(1)) }

\* the TOCs of exactly n entries
RECURSIVE Tocs(_)
Tocs(n) ==
    IF n = 0 THEN {<<>>}
    ELSE { Append(t, e) : t \in Tocs(n - 1), e \in EntryPool }

RECURSIVE TocBytes(_)
TocBytes(t) ==
    IF t = <<>> THEN <<>> ELSE BCat(AosV2Entry_to_bytes(t[1]), TocBytes(Tail(t)))

\* A hand-made archive: a header announcing toc_length, the entries of t, slack
\* bytes up to 273 + toc_length when toc_length is not the size of t, and the
\* data region; then cut to its first `cut` bytes.
MakeArchive(t, toc_length, data_offset, cut) ==
    LET h == [unknown1 |-> W(0), data_offset |-> data_offset,
              toc_length |-> toc_length,
              archive_name |-> BCat(BFromSeq(Name(122)), Rep(0, W(ARCHIVE_NAME_SIZE - 1)))]
        toc == TocBytes(t)
        slack == IF WLt(BLen(toc), toc_length) /\ toc_length[1] = 0
                 THEN Rep(238, WSub(toc_length, BLen(toc))) ELSE <<>>
    IN  BTake(BCat(BCat(BCat(AosV2Hdr_to_bytes(h), toc), slack), DataRegion), cut)

Whole == <<Limb, 0>>

\* the ways an archive of TOC t departs from what the packer writes
Archives(t) ==
    LET n == WMul(Len(t), ENTRY_SIZE)
        right == WAdd(W(HDR_SIZE), n)
    IN  { MakeArchive(t, n, right, Whole),
          MakeArchive(t, n, W(0), Whole),
          MakeArchive(t, WAdd(n, W(1)), right, Whole),
          MakeArchive(t, WAdd(n, W(ENTRY_SIZE - 1)), W(7), Whole),
          MakeArchive(t, <<Limb - 1, Limb - 1>>, right, Whole),
          MakeArchive(t, n, right, W(HDR_SIZE - 1)),
          MakeArchive(t, n, right, WAdd(W(HDR_SIZE), W(ENTRY_SIZE \div 2))) }

Init ==
    /\ pc = "idle"
    /\ pack = NoPack
    /\ unpack = NoUnpack
    /\ packRes = "none"
    /\ unpackRes = "none"
    /\ out = [exists |-> FALSE, files |-> <<>>]
    /\ \/ \* a directory to pack; nothing, or an older file, at the archive path
          /\ \E n \in 0..MaxFiles : \E l \in Listings(n) :
                 dir = [exists |-> TRUE, listing |-> l]
          /\ archive \in {NoFile, FileOf(OldArchive)}
          /\ overflow_checks \in BOOLEAN
       \/ \* an archive to unpack, made by something else
          /\ dir = [exists |-> FALSE, listing |-> <<>>]
          /\ \E n \in 0..MaxEntries : \E t \in Tocs(n) : \E a \in Archives(t) :
                 archive = FileOf(a)
          /\ overflow_checks = FALSE
    /\ archive0 = archive

\* ------------------------------------------------------------------------
\* Writing files.
\* ------------------------------------------------------------------------
\* what a failed write_all of b may leave behind: a proper prefix of b
PartialPrefixes(b) == {BTake(b, W(0)), BTake(b, W(1))} \ {b}

\* write_all(b): all of b written, or an error after a proper prefix
WriteAll(b) ==
    {[ok |-> TRUE, written |-> b]} \cup
    {[ok |-> FALSE, written |-> x] : x \in PartialPrefixes(b)}

Put(files, name, data) ==
    [n \in DOMAIN files \cup {name} |-> IF n = name THEN data ELSE files[n]]

\* fs::write(dir/name, buf): the file created or truncated and buf written; or
\* an error, with the file not created, or created and holding a proper prefix.
\* An empty name is the directory itself, which cannot be written.
FsWrite(files, name, buf) ==
    {[ok |-> FALSE, files |-> files]} \cup
    (IF name = <<>> THEN {}
     ELSE {[ok |-> TRUE, files |-> Put(files, name, buf)]} \cup
          {[ok |-> FALSE, files |-> Put(files, name, x)] : x \in PartialPrefixes(buf)})

\* ------------------------------------------------------------------------
\* pack_directory
\* ------------------------------------------------------------------------
PackEnds(res) ==
    /\ packRes' = res
    /\ pc' = "idle"

\* the regular files of a listing, in listing order
RegularFiles(listing) == SelectSeq(listing, LAMBDA e : e.isFile)

\* PackList without the empty check: the loop over no files does nothing and
\* the archive is created
PackListNoEmptyCheck ==
    /\ pc = "idle" /\ dir.exists /\ packRes = "none" /\ unpackRes = "none"
    /\ \E listed \in BOOLEAN :
         LET files == RegularFiles(dir.listing)
         IN  IF ~listed THEN PackEnds("ReadDirFailed") /\ UNCHANGED pack
             ELSE /\ pack' = [NoPack EXCEPT !.files_to_pack = files, !.i = 1]
                  /\ pc' = IF files = <<>> THEN "pack_create" ELSE "pack_loop"
                  /\ UNCHANGED packRes
    /\ UNCHANGED <<dir, archive, archive0, out, overflow_checks, unpack, unpackRes>>

\* PackList creating the output file before the files are looked at
PackListCreatingOutput ==
    /\ pc = "idle" /\ dir.exists /\ packRes = "none" /\ unpackRes = "none"
    /\ \E listed \in BOOLEAN :
         LET files == RegularFiles(dir.listing)
         IN  IF ~listed THEN PackEnds("ReadDirFailed") /\ UNCHANGED <<pack, archive>>
             ELSE IF files = <<>>
             THEN PackEnds("EmptyDirectory") /\ UNCHANGED <<pack, archive>>
             ELSE /\ pack' = [NoPack EXCEPT !.files_to_pack = files, !.i = 1]
                  /\ archive' = FileOf(<<>>)
                  /\ pc' = "pack_loop"
                  /\ UNCHANGED packRes
    /\ UNCHANGED <<dir, archive0, out, overflow_checks, unpack, unpackRes>>

\* read_dir, the is_file filter and the empty check
PackList ==
    /\ pc = "idle" /\ dir.exists /\ packRes = "none" /\ unpackRes = "none"
    /\ \E listed \in BOOLEAN :
         LET files == RegularFiles(dir.listing)
         IN  IF ~listed THEN PackEnds("ReadDirFailed") /\ UNCHANGED pack
             ELSE IF files = <<>> THEN PackEnds("EmptyDirectory") /\ UNCHANGED pack
             ELSE /\ pack' = [NoPack EXCEPT !.files_to_pack = files, !.i = 1]
                  /\ pc' = "pack_loop"
                  /\ UNCHANGED packRes
    /\ UNCHANGED <<dir, archive, archive0, out, overflow_checks, unpack, unpackRes>>

\* the TOC entry of a file: its name zero-padded, the running offset, and its
\* length as a u32
PackEntry(name, current_offset, file_data) ==
    [filename |-> name \o Zeros(FILENAME_SIZE - Len(name)),
     offset |-> current_offset,
     length |-> AsU32(BLen(file_data))]

\* the length check off by one: a name of FILENAME_SIZE bytes passes
NameTooLongOffByOne(filename) == Len(filename) > FILENAME_SIZE

\* the length check on a file name (a &str: the name as UTF-8 bytes)
NameTooLong(filename) == Len(filename) >= FILENAME_SIZE

\* one iteration of the loop over files_to_pack
PackFile ==
    /\ pc = "pack_loop"
    /\ LET f == pack.files_to_pack[pack.i]
           entry == PackEntry(f.name, pack.current_offset, f.data)
           sum == WAdd(pack.current_offset, entry.length)
       IN  IF ~IsUtf8(f.name) THEN PackEnds("InvalidName") /\ UNCHANGED pack
           ELSE IF NameTooLong(f.name)
           THEN PackEnds("FilenameTooLong") /\ UNCHANGED pack
           ELSE IF ~f.readable THEN PackEnds("ReadFailed") /\ UNCHANGED pack
           ELSE IF ~FitsU32(sum) /\ overflow_checks
           THEN /\ PackEnds("Panic")
                /\ pack' = [pack EXCEPT !.entries = Append(@, entry),
                                        !.data_blob = BCat(@, f.data)]
           ELSE /\ pack' = [pack EXCEPT !.entries = Append(@, entry),
                                        !.data_blob = BCat(@, f.data),
                                        !.current_offset = AsU32(sum),
                                        !.i = @ + 1]
                /\ pc' = IF pack.i = Len(pack.files_to_pack)
                         THEN "pack_create" ELSE "pack_loop"
                /\ UNCHANGED packRes
    /\ UNCHANGED <<dir, archive, archive0, out, overflow_checks, unpack, unpackRes>>

\* the archive name buffer: "<dir_name>.aos" cut to ARCHIVE_NAME_SIZE - 1 bytes
\* and zero-padded
ArchiveName(dir_name) ==
    LET str == dir_name \o DotAos
        name_len == IF Len(str) < ARCHIVE_NAME_SIZE - 1
                    THEN Len(str) ELSE ARCHIVE_NAME_SIZE - 1
    IN  BCat(BFromSeq(SubSeq(str, 1, name_len)),
             Rep(0, W(ARCHIVE_NAME_SIZE - name_len)))

\* the header with data_offset left 0
PackHeaderZeroOffset(entries) ==
    LET toc_length == AsU32(WMul(Len(entries), ENTRY_SIZE))
    IN  [unknown1 |-> W(0),
         data_offset |-> W(0),
         toc_length |-> toc_length,
         archive_name |-> ArchiveName(DirName)]

\* the header of an archive of the given entries
PackHeader(entries) ==
    LET toc_length == AsU32(WMul(Len(entries), ENTRY_SIZE))
    IN  [unknown1 |-> W(0),
         data_offset |-> AsU32(WAdd(W(HDR_SIZE), toc_length)),
         toc_length |-> toc_length,
         archive_name |-> ArchiveName(DirName)]

\* the header is built and the output file created (or truncated)
PackCreate ==
    /\ pc = "pack_create"
    /\ pack' = [pack EXCEPT !.header = PackHeader(pack.entries), !.i = 1]
    /\ \E created \in BOOLEAN :
         IF created
         THEN archive' = FileOf(<<>>) /\ pc' = "pack_header" /\ UNCHANGED packRes
         ELSE PackEnds("CreateFailed") /\ UNCHANGED archive
    /\ UNCHANGED <<dir, archive0, out, overflow_checks, unpack, unpackRes>>

\* the output file after write_all(b) on it, with outcome w
Appended(w) == FileOf(BCat(archive.bytes, w.written))

PackWriteHeader ==
    /\ pc = "pack_header"
    /\ \E w \in WriteAll(AosV2Hdr_to_bytes(pack.header)) :
         /\ archive' = Appended(w)
         /\ IF w.ok THEN pc' = "pack_toc" /\ UNCHANGED packRes
            ELSE PackEnds("WriteFailed")
    /\ UNCHANGED <<dir, archive0, out, overflow_checks, pack, unpack, unpackRes>>

\* one iteration of the loop writing the TOC
PackWriteEntry ==
    /\ pc = "pack_toc"
    /\ \E w \in WriteAll(AosV2Entry_to_bytes(pack.entries[pack.i])) :
         /\ archive' = Appended(w)
         /\ IF w.ok
            THEN /\ pc' = IF pack.i = Len(pack.entries) THEN "pack_data" ELSE "pack_toc"
                 /\ pack' = [pack EXCEPT !.i = @ + 1]
                 /\ UNCHANGED packRes
            ELSE PackEnds("WriteFailed") /\ UNCHANGED pack
    /\ UNCHANGED <<dir, archive0, out, overflow_checks, unpack, unpackRes>>

PackWriteData ==
    /\ pc = "pack_data"
    /\ \E w \in WriteAll(pack.data_blob) :
         /\ archive' = Appended(w)
         /\ PackEnds(IF w.ok THEN "Ok" ELSE "WriteFailed")
    /\ UNCHANGED <<dir, archive0, out, overflow_checks, pack, unpack, unpackRes>>

pack_directory ==
    \/ PackList
    \/ PackFile
    \/ PackCreate
    \/ PackWriteHeader
    \/ PackWriteEntry
    \/ PackWriteData

\* ------------------------------------------------------------------------
\* unpack_archive
\* ------------------------------------------------------------------------
UnpackEnds(res) ==
    /\ unpackRes' = res
    /\ pc' = "idle"

\* the number of TOC entries a header announces
EntryCount(header) == WDiv(header.toc_length, ENTRY_SIZE)

\* the data region taken to start where the header's data_offset says
BaseOffsetFromHeader(header) == header.data_offset

\* where the data region starts
BaseOffset(header) == WAdd(W(HDR_SIZE), header.toc_length)

\* the archive is opened and its header read
UnpackOpen ==
    /\ pc = "idle" /\ archive.exists /\ unpackRes = "none"
    /\ \E opened \in BOOLEAN :
         LET h == AosV2Hdr_from_reader(archive.bytes, W(0))
         IN  IF ~opened THEN UnpackEnds("OpenFailed") /\ UNCHANGED unpack
             ELSE IF ~h.ok THEN UnpackEnds("TruncatedInput") /\ UNCHANGED unpack
             ELSE /\ unpack' = [NoUnpack EXCEPT !.header = h.val,
                                                !.entry_count = EntryCount(h.val),
                                                !.pos = W(HDR_SIZE),
                                                !.k = 1]
                  /\ pc' = IF EntryCount(h.val) = WZero
                           THEN "unpack_mkdir" ELSE "unpack_toc"
                  /\ UNCHANGED unpackRes
    /\ UNCHANGED <<dir, archive, archive0, out, overflow_checks, pack, packRes>>

\* one iteration of the loop reading the TOC
UnpackReadEntry ==
    /\ pc = "unpack_toc"
    /\ LET e == AosV2Entry_from_reader(archive.bytes, unpack.pos)
       IN  IF ~e.ok THEN UnpackEnds("TruncatedInput") /\ UNCHANGED unpack
           ELSE /\ unpack' = [unpack EXCEPT !.entries = Append(@, e.val),
                                            !.pos = WAdd(@, W(ENTRY_SIZE))]
                /\ pc' = IF W(Len(unpack.entries) + 1) = unpack.entry_count
                         THEN "unpack_mkdir" ELSE "unpack_toc"
                /\ UNCHANGED unpackRes
    /\ UNCHANGED <<dir, archive, archive0, out, overflow_checks, pack, packRes>>

\* create_dir_all of the output directory
UnpackCreateDir ==
    /\ pc = "unpack_mkdir"
    /\ \E made \in BOOLEAN :
         IF ~made THEN UnpackEnds("OutputDirCreateFailed") /\ UNCHANGED out
         ELSE /\ out' = [out EXCEPT !.exists = TRUE]
              /\ IF unpack.entries = <<>> THEN UnpackEnds("Ok")
                 ELSE pc' = "unpack_extract" /\ UNCHANGED unpackRes
    /\ UNCHANGED <<dir, archive, archive0, overflow_checks, pack, unpack, packRes>>

\* a read that takes the bytes there are instead of failing when too few remain
EntryDataShortRead(file, header, entry) ==
    [ok |-> TRUE,
     data |-> BSlice(file, WAdd(BaseOffset(header), entry.offset), entry.length)]

\* the bytes an entry names: read_exact of entry.length bytes at
\* base_offset + entry.offset
EntryData(file, header, entry) ==
    ReadExact(file, WAdd(BaseOffset(header), entry.offset), entry.length)

\* an entry that fails is skipped and the loop goes on
EntrySkipped(res) ==
    /\ unpack' = [unpack EXCEPT !.k = @ + 1]
    /\ IF unpack.k = Len(unpack.entries) THEN UnpackEnds("Ok")
       ELSE pc' = "unpack_extract" /\ UNCHANGED unpackRes
    /\ UNCHANGED out

\* an entry that fails ends the call: the error is returned from the loop
EntryFails(res) ==
    /\ UnpackEnds(res)
    /\ UNCHANGED <<out, unpack>>

\* one iteration of the loop extracting the files
UnpackExtract ==
    /\ pc = "unpack_extract"
    /\ LET entry == unpack.entries[unpack.k]
           filename_str == get_filename_str(entry)
           buffer == EntryData(archive.bytes, unpack.header, entry)
       IN  IF ~filename_str.ok
           THEN EntryFails("InvalidFilename")
           ELSE IF ~buffer.ok
           THEN EntryFails("TruncatedData")
           ELSE \E w \in FsWrite(out.files, filename_str.val, buffer.data) :
                  /\ out' = [out EXCEPT !.files = w.files]
                  /\ IF ~w.ok THEN UnpackEnds("WriteFailed") /\ UNCHANGED unpack
                     ELSE /\ unpack' =
                               [unpack EXCEPT
                                  !.written = Append(@, [k |-> unpack.k,
                                                         name |-> filename_str.val,
                                                         data |-> buffer.data]),
                                  !.k = @ + 1]
                          /\ IF unpack.k = Len(unpack.entries) THEN UnpackEnds("Ok")
                             ELSE pc' = "unpack_extract" /\ UNCHANGED unpackRes
    /\ UNCHANGED <<dir, archive, archive0, overflow_checks, pack, packRes>>

unpack_archive ==
    \/ UnpackOpen
    \/ UnpackReadEntry
    \/ UnpackCreateDir
    \/ UnpackExtract

Next == pack_directory \/ unpack_archive

Spec == Init /\ [][Next]_vars

\* ------------------------------------------------------------------------
\* What the claims speak of.
\* ------------------------------------------------------------------------
\* the (name, contents) pairs of the regular files of the packed directory
PackedPairs == {<<dir.listing[j].name, dir.listing[j].data>> :
                    j \in {x \in 1..Len(dir.listing) : dir.listing[x].isFile}}

\* the (name, contents) pairs of the files of the output directory
OutPairs == {<<n, out.files[n]>> : n \in DOMAIN out.files}

ShortNames == \A j \in 1..Len(dir.listing) :
                  dir.listing[j].isFile => Len(dir.listing[j].name) < FILENAME_SIZE

RECURSIVE TotalSize(_)
TotalSize(files) ==
    IF files = <<>> THEN WZero ELSE WAdd(BLen(files[1].data), TotalSize(Tail(files)))

\* C1: packing a directory whose regular files all have names shorter than
\* FILENAME_SIZE bytes and unpacking the archive produced gives an output
\* directory holding exactly the (name, contents) pairs of the packed files,
\* whatever the enumeration order was.
RoundTrip ==
    (packRes = "Ok" /\ unpackRes = "Ok" /\ ShortNames) => OutPairs = PackedPairs

\* The round trip of directories holding less than 4 GiB in all.
RoundTripBelow4GiB ==
    (packRes = "Ok" /\ unpackRes = "Ok" /\ FitsU32(TotalSize(RegularFiles(dir.listing))))
        => OutPairs = PackedPairs

\* C2: an archive whose toc_length is not a multiple of the entry size is
\* rejected with MalformedToc once its header is read: no TOC entry is read
\* and the output directory is not created.
HeaderRead == unpack.k > 0

\* a % c for a wide a and a small divisor c
WMod(a, c) == ((a[1] % c) * Limb + a[2]) % c

RejectsMalformedToc ==
    (HeaderRead /\ WMod(unpack.header.toc_length, ENTRY_SIZE) # 0)
        => /\ unpackRes = "MalformedToc"
           /\ unpack.entries = <<>>
           /\ ~out.exists

\* the sum of the lengths of the entries before entry j
RECURSIVE LengthsBefore(_, _)
LengthsBefore(entries, j) ==
    IF j <= 1 THEN WZero
    ELSE WAdd(entries[j - 1].length, LengthsBefore(entries, j - 1))

RECURSIVE Concat(_)
Concat(files) ==
    IF files = <<>> THEN <<>> ELSE BCat(files[1].data, Concat(Tail(files)))

\* the loop over files_to_pack has run to its end
TocBuilt == pack.i > 0 /\ Len(pack.entries) = Len(pack.files_to_pack)
            /\ packRes # "Panic"

\* C7: the TOC pack_directory builds is contiguous and gap-free: entry 1 is at
\* offset 0, each later entry at the sum of the lengths of the entries before
\* it, each length is the byte count of its file, and the data blob is the
\* concatenation of the files in listing order, as long as the lengths sum.
TocContiguous ==
    TocBuilt =>
        /\ \A j \in 1..Len(pack.entries) :
             /\ pack.entries[j].length = BLen(pack.files_to_pack[j].data)
             /\ pack.entries[j].offset = LengthsBefore(pack.entries, j)
        /\ pack.data_blob = Concat(pack.files_to_pack)
        /\ BLen(pack.data_blob) = LengthsBefore(pack.entries, Len(pack.entries) + 1)

\* the entry the extraction loop stands at
CurEntry == unpack.entries[unpack.k]

\* the bytes before the first zero of a filename buffer
NameBytes(e) == SubSeq(e.filename, 1, NullPos(e.filename))

\* where the data region of the archive being unpacked starts: 273 + toc_length
DataStart == WAdd(W(273), unpack.header.toc_length)

\* whether [DataStart + offset, DataStart + offset + length) ends past the end
\* of the archive
PastEnd(e) ==
    WLt(BLen(archive.bytes), WAdd(DataStart, WAdd(e.offset, e.length)))

\* the step of the loop at entry e fails and writes nothing
FailsUnwritten(e) ==
    /\ out' = out
    /\ unpack'.written = unpack.written
    /\ pc' = "idle"
    /\ unpackRes' = IF IsUtf8(NameBytes(e)) THEN "TruncatedData" ELSE "InvalidFilename"

\* C3 as stated: whenever the loop stands at an entry whose range ends past the
\* end of the archive, the call fails there (with the truncated-data error when
\* the entry's name is valid) and nothing is written for the entry.
TruncatedEntryFails ==
    [][(pc = "unpack_extract" /\ PastEnd(CurEntry)) => FailsUnwritten(CurEntry)]_vars

\* C3 amended: the same for the entries of length > 0.  An entry of length 0
\* reads nothing: it succeeds wherever its offset lies.
TruncatedNonEmptyEntryFails ==
    [][(pc = "unpack_extract" /\ PastEnd(CurEntry) /\ CurEntry.length # WZero)
           => FailsUnwritten(CurEntry)]_vars

TruncatedEntryReached ==
    /\ unpackRes = "TruncatedData"
    /\ unpack.k = 2
    /\ Len(unpack.written) = 1
    /\ PastEnd(CurEntry)
    /\ CurEntry.length # WZero
    /\ DOMAIN out.files = {unpack.written[1].name}

\* C4: packing a directory without regular files fails with EmptyDirectory (once
\* the directory was listed) and leaves the archive path as it was.
EmptyDirectoryRejected ==
    (dir.exists /\ RegularFiles(dir.listing) = <<>>)
        => /\ pc = "idle"
           /\ packRes \in {"none", "ReadDirFailed", "EmptyDirectory"}
           /\ pack = NoPack
           /\ archive = archive0

EmptyDirectoryReached ==
    /\ packRes = "EmptyDirectory"
    /\ Len(dir.listing) = 1
    /\ ~archive.exists

\* the results of a pack that stopped in the loop over the files
PackLoopErrors == {"InvalidName", "FilenameTooLong", "ReadFailed", "Panic"}

\* C5: a file name (valid UTF-8) of at most FILENAME_SIZE - 1 bytes passes the
\* length check and is stored followed by zero bytes up to FILENAME_SIZE, so by
\* at least one; a name of FILENAME_SIZE bytes or more ends the pack with
\* FilenameTooLong.
FilenameLengthCheck ==
    /\ \A j \in 1..Len(pack.entries) :
         LET name == pack.files_to_pack[j].name
             buf == pack.entries[j].filename
         IN  /\ Len(name) <= FILENAME_SIZE - 1
             /\ Len(buf) = FILENAME_SIZE
             /\ SubSeq(buf, 1, Len(name)) = name
             /\ \A x \in (Len(name) + 1)..FILENAME_SIZE : buf[x] = 0
    /\ packRes \in PackLoopErrors =>
         LET name == pack.files_to_pack[pack.i].name
         IN  IsUtf8(name) =>
               /\ packRes # "InvalidName"
               /\ packRes = "FilenameTooLong" <=> Len(name) >= FILENAME_SIZE

FilenameBoundaryReached ==
    /\ packRes = "FilenameTooLong"
    /\ Len(pack.entries) = 1
    /\ NullPos(pack.entries[1].filename) = FILENAME_SIZE - 1
    /\ Len(pack.files_to_pack[2].name) = FILENAME_SIZE

\* C6: the header of an archive written by a successful pack agrees with its
\* TOC: toc_length is 40 times the number of entries written, which is the
\* number of regular files packed, and data_offset is 273 + toc_length, the
\* position where the data blob starts in the file.
HeaderConsistent ==
    packRes = "Ok" =>
        LET h == AosV2Hdr_from_reader(archive.bytes, W(0))
            n == Len(pack.entries)
        IN  /\ h.ok
            /\ n = Len(RegularFiles(dir.listing))
            /\ h.val.toc_length = W(n * 40)
            /\ h.val.data_offset = WAdd(W(273), h.val.toc_length)
            /\ \A j \in 1..n :
                 LET e == AosV2Entry_from_reader(archive.bytes, W(273 + 40 * (j - 1)))
                 IN  e.ok /\ e.val = pack.entries[j]
            /\ BDrop(archive.bytes, h.val.data_offset) = pack.data_blob
            /\ BLen(archive.bytes) = WAdd(h.val.data_offset, BLen(pack.data_blob))

PackedTwoFiles ==
    /\ packRes = "Ok"
    /\ Len(pack.entries) = 2
    /\ pack.data_blob # <<>>

\* the bytes entry e names in the archive being unpacked
EntryBytes(e) == BSlice(archive.bytes, WAdd(DataStart, e.offset), e.length)

\* a record of the log of files written is the file of its entry, whole
Complete(w) ==
    LET e == unpack.entries[w.k]
    IN  /\ w.name = NameBytes(e)
        /\ w.data = EntryBytes(e)
        /\ BLen(w.data) = e.length

\* the contents last written under name n
LastWritten(n) ==
    LET js == {j \in 1..Len(unpack.written) : unpack.written[j].name = n}
    IN  unpack.written[CHOOSE j \in js : \A x \in js : x <= j].data

\* the file, if any, that a failed write of the current entry left behind
LeftByFailedWrite(n) == unpackRes = "WriteFailed" /\ n = NameBytes(CurEntry)

\* C8: each file written holds exactly the bytes
\* [273 + toc_length + offset, 273 + toc_length + offset + length) of the
\* archive, for its own entry's offset and length, wherever the other entries
\* lie and whatever the header's data_offset says; the output directory holds,
\* under each name, what was last written under it.
HonorsEachEntry ==
    /\ \A j \in 1..Len(unpack.written) : Complete(unpack.written[j])
    /\ \A n \in DOMAIN out.files :
         \/ LeftByFailedWrite(n)
         \/ /\ \E j \in 1..Len(unpack.written) : unpack.written[j].name = n
            /\ out.files[n] = LastWritten(n)

ArbitraryPlacementReached ==
    /\ unpackRes = "Ok"
    /\ Len(unpack.written) = 2
    /\ unpack.header.data_offset # DataStart
    /\ WLt(unpack.entries[2].offset, unpack.entries[1].offset)
    /\ WLt(unpack.entries[1].offset, WAdd(unpack.entries[2].offset, unpack.entries[2].length))
    /\ unpack.written[1].name # unpack.written[2].name

\* the results of an unpack that stopped in the loop over the entries
UnpackLoopErrors == {"InvalidFilename", "TruncatedData", "WriteFailed"}

\* C9: files are written in TOC order and no entry is skipped; when the call
\* fails at entry k, that is the first failing entry, the files of the entries
\* before k are written whole, and nothing is written for an entry after k.
NoPartialSuccess ==
    /\ \A j \in 1..Len(unpack.written) :
         unpack.written[j].k = j /\ Complete(unpack.written[j])
    /\ pc = "unpack_extract" => unpack.k = Len(unpack.written) + 1
    /\ unpackRes = "Ok" => Len(unpack.written) = Len(unpack.entries)
    /\ unpackRes \in UnpackLoopErrors =>
         /\ Len(unpack.written) = unpack.k - 1
         /\ unpackRes = "InvalidFilename" <=> ~IsUtf8(NameBytes(CurEntry))
         /\ unpackRes = "TruncatedData" =>
              PastEnd(CurEntry) /\ CurEntry.length # WZero
         /\ \A n \in DOMAIN out.files :
              \/ LeftByFailedWrite(n)
              \/ /\ \E j \in 1..(unpack.k - 1) : unpack.written[j].name = n
                 /\ out.files[n] = LastWritten(n)

StoppedBeforeLast ==
    /\ unpackRes = "InvalidFilename"
    /\ unpack.k = 1
    /\ Len(unpack.entries) = 2
    /\ IsUtf8(NameBytes(unpack.entries[2]))
    /\ ~PastEnd(unpack.entries[2])
    /\ out.exists
    /\ DOMAIN out.files = {}

\* the results of a pack that stopped before creating the archive
BeforeCreate == {"ReadDirFailed", "EmptyDirectory", "CreateFailed"} \cup PackLoopErrors

\* C10: the archive path is touched only after every file was validated and
\* read: a pack that fails before leaves it as it was (absent, or the older
\* file), and a partial archive comes only from a failed write.
CreatesAfterValidation ==
    /\ (pc \in {"pack_loop", "pack_create"} \/ packRes \in BeforeCreate \/
        (pc = "idle" /\ packRes = "none"))
           => archive = archive0
    /\ archive # archive0 =>
           /\ pack.i > 0
           /\ Len(pack.entries) = Len(pack.files_to_pack)
           /\ \A j \in 1..Len(pack.files_to_pack) :
                LET f == pack.files_to_pack[j]
                IN  IsUtf8(f.name) /\ Len(f.name) < FILENAME_SIZE /\ f.readable
           /\ packRes \in {"none", "Ok", "WriteFailed"}

FailedLeavingOldArchive ==
    /\ packRes = "ReadFailed"
    /\ Len(pack.entries) = 1
    /\ archive0.exists
    /\ archive = archive0

=============================================================================
